---- MODULE Spec2Model ----
(***************************************************************************)
(* A model of 4__Predictor.py: the Assembler (prepare_training_data), the  *)
(* Trainer (train_random_forest) and the Scorer (predict_and_save), run    *)
(* by main() against a file system of parquet tables.                      *)
(*                                                                         *)
(* Numbers: a probability is an integer number of hundredths (62 is 0.62), *)
(* a date is a day ordinal (NaT is the null date), a target is a record    *)
(* [null, val] (NaN is the null target).                                    *)
(***************************************************************************)
EXTENDS Integers, Sequences, FiniteSets, TLC

(* ------------------------------ bounds --------------------------------- *)

\* candidate files in the input directory
NumFiles == 3
\* rows of an ordinary input table
CleanRows == 60
\* dates that two consecutive instruments share after trimming
Overlap == 1
\* prediction tables left by an earlier run for instruments no longer present
MaxStale == 1

(* ------------------------- program constants --------------------------- *)

\* df.shape[0] > 50
MinRows == 50
\* df.iloc[2:-2]
TrimRows == 2
\* (target <= 10000) & (target >= -10000)
TargetBound == 10000
\* confidence_threshold_pos=0.62, confidence_threshold_neg=0.62
DefaultThreshold == 62
\* (df['UpProbability'] >= 0.62)
ScorerThreshold == 62
\* argparse default of --runpercent
DefaultPercent == 50
\* pd.to_datetime of a null cell
NaT == 0

TargetCol == "percent_change_Close"
DateCol == "Date"
FeatureCol == "feature"
IdCols == {"src", "idx"}

(* ------------------------------ values --------------------------------- *)

NaN == [null |-> TRUE, val |-> 0]
Num(v) == [null |-> FALSE, val |-> v]
NullCell == [null |-> TRUE, day |-> 0]
Day(d) == [null |-> FALSE, day |-> d]

Absent == <<"absent">>

\* a file name: os.path base name split at the extension
Name(i) == [stem |-> i, ext |-> "parquet"]
Notes == [stem |-> 0, ext |-> "txt"]
EndsWithParquet(f) == f.ext = "parquet"

RECURSIVE Flatten(_)
Flatten(ss) == IF ss = <<>> THEN <<>> ELSE Head(ss) \o Flatten(Tail(ss))

(* ------------------------- the input tables ---------------------------- *)

Kinds == {"clean", "edge51", "edge50", "notarget", "nodate", "range", "allbad", "nulldate"}

RowsOf(kind) ==
    CASE kind = "edge51" -> MinRows + 1
      [] kind = "edge50" -> MinRows
      [] kind = "allbad" -> MinRows + 1
      [] kind = "range" -> MinRows + 2
      [] kind = "nulldate" -> MinRows + 2
      [] OTHER -> CleanRows

ColsOf(kind) ==
    CASE kind = "notarget" -> IdCols \cup {DateCol, FeatureCol}
      [] kind = "nodate" -> IdCols \cup {TargetCol, FeatureCol}
      [] OTHER -> IdCols \cup {DateCol, TargetCol, FeatureCol}

Stride == CleanRows - 2 * TrimRows - Overlap

\* the date cell of row i (0-based) of instrument s: consecutive days starting
\* one stride after the instrument before; the third instrument's first rows
\* are dated like the second's and its series resumes later, so that its
\* first kept row shares its day with the first two instruments
DateCell(s, kind, i) ==
    IF kind = "nulldate" /\ i = 20 THEN NullCell
    ELSE IF s = 3 /\ i <= TrimRows THEN Day(Stride + i + 1)
    ELSE Day((s - 1) * Stride + i + 1)

\* the target of row i (0-based) of instrument s, a percent change in [-5, 5]
\* unless the table is malformed
TargetCell(s, kind, i) ==
    CASE kind = "allbad" -> IF i % 2 = 0 THEN Num(TargetBound + 1) ELSE NaN
      [] kind = "range" /\ i = 1 -> Num(TargetBound + 1)
      [] kind = "range" /\ i = 10 -> Num(TargetBound)
      [] kind = "range" /\ i = 11 -> Num(-TargetBound)
      [] kind = "range" /\ i = 12 -> Num(TargetBound + 1)
      [] kind = "range" /\ i = 13 -> Num(-TargetBound - 1)
      [] kind = "range" /\ i = 14 -> NaN
      [] OTHER -> Num(((i * 3 + s) % 11) - 5)

MkTable(s, kind) ==
    [cols |-> ColsOf(kind),
     rows |-> [k \in 1..RowsOf(kind) |->
                 [src |-> s, idx |-> k - 1,
                  date |-> DateCell(s, kind, k - 1),
                  target |-> TargetCell(s, kind, k - 1),
                  feat |-> (k + s) % 2]]]

(* --------------------- prepare_training_data: pure --------------------- *)

\* int(a / b) for b > 0: Python's int() truncates toward zero
IntTrunc(a, b) == IF a >= 0 THEN a \div b ELSE -((-a) \div b)

\* int(len(all_files) * file_selection_percentage / 100)
SampleSize(n, p) == IntTrunc(n * p, 100)

\* the row test with >= for >
PassesLoose(t) == Len(t.rows) >= MinRows /\ TargetCol \in t.cols /\ DateCol \in t.cols

\* df.shape[0] > 50 and target_column in df.columns and date_column in df.columns
Passes(t) == Len(t.rows) > MinRows /\ TargetCol \in t.cols /\ DateCol \in t.cols

\* pd.to_datetime(df[date_column]): a null cell becomes NaT
ToDatetime(rows) ==
    [i \in DOMAIN rows |->
       [rows[i] EXCEPT !.date = IF rows[i].date.null THEN NaT ELSE rows[i].date.day]]

\* the shift taken the other way: row t receives row t-1's value
ShiftBack(rows) ==
    [i \in DOMAIN rows |->
       [rows[i] EXCEPT !.target = IF i > 1 THEN rows[i - 1].target ELSE NaN]]

\* df[target_column].shift(-1): row t receives row t+1's value, the last row NaN
Shift(rows) ==
    [i \in DOMAIN rows |->
       [rows[i] EXCEPT !.target = IF i < Len(rows) THEN rows[i + 1].target ELSE NaN]]

\* df.iloc[2:-2]
Trim(rows) == SubSeq(rows, TrimRows + 1, Len(rows) - TrimRows)

NotNull(r) == ~r.target.null

\* df.dropna(subset=[target_column])
DropNa(rows) == SelectSeq(rows, NotNull)

\* a comparison with NaN is False
InRange(r) ==
    /\ ~r.target.null
    /\ r.target.val <= TargetBound
    /\ r.target.val >= -TargetBound

\* df[(df[target_column] <= 10000) & (df[target_column] >= -10000)]
RangeFilter(rows) == SelectSeq(rows, InRange)

\* the body of the loop for a table that passes the test of line 76
Transform(t) == RangeFilter(DropNa(Trim(Shift(ToDatetime(t.rows)))))

\* the keys of combined_df.groupby(date_column): NaT keys are dropped
\* (dropna=True) and the keys are sorted (sort=True)
GroupKeys(rows) == {rows[i].date : i \in DOMAIN rows} \ {NaT}

\* every outcome of group.sample(frac=1).reset_index(drop=True): the
\* permutations of the group
SampleAll(g) ==
    {[i \in DOMAIN g |-> g[f[i]]] :
        f \in {h \in [DOMAIN g -> DOMAIN g] : \A i, j \in DOMAIN g : h[i] = h[j] => i = j}}

\* no date of an input table lies beyond this day
LastDay == NumFiles * Stride + CleanRows

\* every outcome of pd.concat(shuffled_groups) for the rows dated lo..hi: the
\* groups follow one another in the ascending order of their keys (the day
\* range is halved until one key is left)
RECURSIVE ShuffledIn(_, _, _)
ShuffledIn(rows, lo, hi) ==
    IF rows = <<>> THEN {<<>>}
    ELSE IF lo = hi THEN SampleAll(rows)
    ELSE LET mid == (lo + hi) \div 2
             early == SelectSeq(rows, LAMBDA r : r.date <= mid)
             late == SelectSeq(rows, LAMBDA r : r.date > mid)
         IN  {a \o b : a \in ShuffledIn(early, lo, mid), b \in ShuffledIn(late, mid + 1, hi)}

\* a groupby that keeps the groups in their order of first appearance
\* (sort=False) and leaves each as it is
GroupsUnsorted(rows) == {SelectSeq(rows, LAMBDA r : r.date # NaT)}

\* every outcome of lines 93-95 for combined_df; no group at all makes
\* pd.concat raise (see AsmEmpty)
ShuffledTables(rows) ==
    ShuffledIn(SelectSeq(rows, LAMBDA r : r.date \in GroupKeys(rows)), 1, LastDay)

(* ----------------------- train_random_forest: pure -------------------- *)

\* y.apply(lambda x: 1 if x > 0 else 0)
Binarize(t) == IF t.val > 0 THEN 1 ELSE 0

\* training_data.drop(columns=[target_column]) less the datetime columns
Features(r) == [src |-> r.src, idx |-> r.idx, feat |-> r.feat]

\* the split with the tenth rounded down instead of the nine tenths
SplitRoundUp(n) == n - IntTrunc(n, 10)

\* int(len(X) * 0.9)
SplitIndex(n) == IntTrunc(n * 9, 10)

\* X.iloc[:split_index]
Head90(rows) == SubSeq(rows, 1, SplitIndex(Len(rows)))

\* X.iloc[split_index:]
Tail10(rows) == SubSeq(rows, SplitIndex(Len(rows)) + 1, Len(rows))

\* the fitted ensembles: P(class 1), in hundredths, by the value of the feature
Classifiers ==
    {<<0, 100>>, <<38, 62>>, <<39, 61>>, <<62, 38>>, <<100, 50>>, <<61, 63>>}

\* clf.predict_proba(X): per row <<P(class 0), P(class 1)>>, summing to 1
PredictProba(c, rows) ==
    [i \in DOMAIN rows |-> <<100 - c[rows[i].feat + 1], c[rows[i].feat + 1]>>]

\* the two tests in the other order
DecideNegFirst(p, pos, neg) ==
    IF p[1] >= neg THEN 0 ELSE IF p[2] >= pos THEN 1 ELSE -1

\* np.where(p[:, 1] >= pos, 1, np.where(p[:, 0] >= neg, 0, -1)) for one row
Decide(p, pos, neg) ==
    IF p[2] >= pos THEN 1 ELSE IF p[1] >= neg THEN 0 ELSE -1

\* y_pred of lines 155-158
Predictions(proba, pos, neg) == [i \in DOMAIN proba |-> Decide(proba[i], pos, neg)]

\* mask = y_pred != -1
Mask(pred) == [i \in DOMAIN pred |-> pred[i] # -1]

RECURSIVE Masked(_, _)
\* s[mask]: the entries of s where the mask is true, in order
Masked(s, mask) ==
    IF s = <<>> THEN <<>>
    ELSE (IF Head(mask) THEN <<Head(s)>> ELSE <<>>) \o Masked(Tail(s), Tail(mask))

(* -------------------------- predict_and_save: pure --------------------- *)

\* the cutoff with > for >=
UpPredictionStrict(p) == IF p > ScorerThreshold THEN 1 ELSE 0

\* (df['UpProbability'] >= 0.62).astype(int)
UpPrediction(p) == IF p >= ScorerThreshold THEN 1 ELSE 0

\* y_pred_proba[:, 1]
UpProbability(c, r) == PredictProba(c, <<r>>)[1][2]

\* the table written for one input table: every row, in order, with the two
\* new columns
Scored(c, rows) ==
    [i \in DOMAIN rows |->
       [src |-> rows[i].src, idx |-> rows[i].idx, date |-> rows[i].date,
        target |-> rows[i].target, feat |-> rows[i].feat,
        UpProbability |-> UpProbability(c, rows[i]),
        UpPrediction |-> UpPrediction(UpProbability(c, rows[i]))]]

(* ------------------------------- state --------------------------------- *)

VARIABLES
    args,             \* argparse: predict, reuse, runpercent; the two thresholds
    missing,          \* the configured directory that does not exist, or "none"
    input,            \* input_directory: file name -> content (read only)
    disk,             \* the artifacts: training, model, importance, predictions
    disk0,            \* the artifacts when the run started
    pc,               \* where main() is
    fatal,            \* the call that raised, "" while none has
    listed,           \* os.listdir(input_directory) has been called
    selected_files,   \* random.sample(...): the files drawn
    todo,             \* the drawn files the loop has not reached; the draw's
                      \* order is random, so any of them may come next
    all_data,         \* the per-file tables appended so far
    training_data,    \* what prepare_training_data returned
    X_train, X_test, y_train, y_test,
    clf,              \* the fitted or loaded ensemble
    y_pred, y_test_filtered, y_pred_filtered,
    to_remove,        \* the listing of line 201 not yet walked
    pending           \* all_files of line 209 not yet scored

vars == <<args, missing, input, disk, disk0, pc, fatal, listed, selected_files,
          todo, all_data, training_data, X_train, X_test, y_train, y_test, clf,
          y_pred, y_test_filtered, y_pred_filtered, to_remove, pending>>

asmVars == <<listed, selected_files, todo, all_data, training_data>>
trainVars == <<X_train, X_test, y_train, y_test, y_pred, y_test_filtered, y_pred_filtered>>
predVars == <<to_remove, pending>>
fixed == <<args, missing, input, disk0>>

\* config: data_output_directory and feature_importance_output lie under
\* model_output_directory
InputDirExists == missing # "input"
DataDirExists == missing \notin {"model", "data"}
ImportanceDirExists == missing \notin {"model", "importance"}
PredictionDirExists == missing # "prediction"

\* the files of the input directory with their tables
InputNames == {Name(i) : i \in 1..NumFiles} \cup {Notes}

InputDir(layout) ==
    [f \in InputNames |-> IF f = Notes THEN <<"text">> ELSE MkTable(f.stem, layout[f.stem])]

KindsFor(s) ==
    IF s = 1 THEN Kinds ELSE IF s = 2 THEN {"clean", "edge50"} ELSE {"clean"}

Layouts == {l \in [1..NumFiles -> Kinds] : \A s \in 1..NumFiles : l[s] \in KindsFor(s)}
CleanLayout == [s \in 1..NumFiles |-> "clean"]
ScorerLayouts == {l \in Layouts : l[1] \in {"clean", "edge50", "notarget", "nodate"} /\ l[2] = "clean"}

\* what an earlier run left: the consolidated table of one instrument, the
\* model fitted on it and its importances
PriorTable == Transform(MkTable(1, "edge51"))
OldClf == <<39, 61>>
StaleTable == Scored(OldClf, ToDatetime(SubSeq(MkTable(1, "clean").rows, 1, 2)))

StaleNames == {Name(1), Notes} \cup {Name(NumFiles + j) : j \in 1..MaxStale}
StaleDir(names) == [f \in names |-> IF f = Notes THEN <<"text">> ELSE StaleTable]

Artifacts(m, training, model, stale) ==
    [training |-> IF m \in {"model", "data"} THEN Absent ELSE training,
     model |-> IF m = "model" THEN Absent ELSE model,
     importance |-> IF m \in {"model", "importance"} \/ model = Absent
                    THEN Absent ELSE [of |-> model],
     predictions |-> IF m = "prediction" THEN <<>> ELSE StaleDir(stale)]

Percents == {-50, -10, 0, 34, 67, 100, 101, 150}
ThresholdPairs ==
    {<<DefaultThreshold, DefaultThreshold>>, <<38, 38>>, <<70, 50>>, <<50, 70>>}
DefaultThresholds == <<DefaultThreshold, DefaultThreshold>>

Args(predict, reuse, p, th) ==
    [predict |-> predict, reuse |-> reuse, runpercent |-> p, pos |-> th[1], neg |-> th[2]]

\* the runs considered: malformed tables under a sound configuration,
\* unsound configurations and earlier artifacts over well-formed tables,
\* thresholds other than the default, and the Scorer's runs
DataRuns ==
    {[args |-> Args(FALSE, FALSE, p, DefaultThresholds), missing |-> "none",
      layout |-> l, disk |-> Artifacts("none", old[1], old[2], {})] :
        p \in {34, 100}, l \in Layouts,
        old \in {<<Absent, Absent>>, <<PriorTable, OldClf>>}}

ConfigRuns ==
    {[args |-> Args(FALSE, r, p, DefaultThresholds),
      missing |-> m, layout |-> CleanLayout,
      disk |-> Artifacts(m, old[1], old[2], {})] :
        r \in BOOLEAN, p \in Percents,
        m \in {"none", "input", "data", "model", "importance"},
        old \in {<<Absent, Absent>>, <<PriorTable, OldClf>>}}

ThresholdRuns ==
    {[args |-> Args(FALSE, r, 34, th), missing |-> "none", layout |-> CleanLayout,
      disk |-> Artifacts("none", PriorTable, OldClf, {})] :
        r \in BOOLEAN, th \in ThresholdPairs}

ScorerRuns ==
    {[args |-> Args(TRUE, FALSE, DefaultPercent, DefaultThresholds),
      missing |-> m, layout |-> l,
      disk |-> Artifacts(m, Absent, c, stale)] :
        m \in {"none", "input", "model", "prediction"}, l \in ScorerLayouts,
        c \in Classifiers \cup {Absent}, stale \in SUBSET StaleNames}

Runs == DataRuns \cup ConfigRuns \cup ThresholdRuns \cup ScorerRuns

Init ==
    \E run \in Runs :
        /\ args = run.args
        /\ missing = run.missing
        /\ input = InputDir(run.layout)
        /\ disk = run.disk
        /\ disk0 = run.disk
        /\ pc = "start"
        /\ fatal = ""
        /\ listed = FALSE
        /\ selected_files = {}
        /\ todo = {}
        /\ all_data = <<>>
        /\ training_data = <<>>
        /\ X_train = <<>> /\ X_test = <<>> /\ y_train = <<>> /\ y_test = <<>>
        /\ clf = Absent
        /\ y_pred = <<>> /\ y_test_filtered = <<>> /\ y_pred_filtered = <<>>
        /\ to_remove = {}
        /\ pending = {}

\* an uncaught exception ends the process
Raise(what) ==
    /\ pc' = "fatal"
    /\ fatal' = what

(* ------------------------ prepare_training_data ------------------------ *)

\* the test of line 58 without the flag
ReusingAlways == disk.training # Absent

\* line 58: reuse and os.path.exists(output_file)
Reusing == args.reuse /\ disk.training # Absent

\* line 64
AllFiles == {f \in DOMAIN input : EndsWithParquet(f)}

\* lines 58-61: the reuse path
AsmReuse ==
    /\ pc = "start" /\ ~args.predict
    /\ Reusing
    /\ training_data' = disk.training
    /\ pc' = "train"
    /\ UNCHANGED <<fixed, disk, fatal, listed, selected_files, todo, all_data,
                   trainVars, clf, predVars>>

\* line 64: os.listdir of a directory that does not exist raises
AsmListFail ==
    /\ pc = "start" /\ ~args.predict
    /\ ~Reusing
    /\ ~InputDirExists
    /\ Raise("listdir")
    /\ UNCHANGED <<fixed, disk, asmVars, trainVars, clf, predVars>>

\* line 65: random.sample raises ValueError for a negative or too large size
AsmSampleFail ==
    /\ pc = "start" /\ ~args.predict
    /\ ~Reusing
    /\ InputDirExists
    /\ LET k == SampleSize(Cardinality(AllFiles), args.runpercent)
       IN  k < 0 \/ k > Cardinality(AllFiles)
    /\ listed' = TRUE
    /\ Raise("sample")
    /\ UNCHANGED <<fixed, disk, selected_files, todo, all_data, training_data,
                   trainVars, clf, predVars>>

\* lines 64-71: enumerate, draw the sample, remove the old consolidated table
AsmSelect ==
    /\ pc = "start" /\ ~args.predict
    /\ ~Reusing
    /\ InputDirExists
    /\ \E S \in SUBSET AllFiles :
          /\ Cardinality(S) = SampleSize(Cardinality(AllFiles), args.runpercent)
          /\ selected_files' = S
          /\ todo' = S
    /\ listed' = TRUE
    /\ disk' = [disk EXCEPT !.training = Absent]
    /\ all_data' = <<>>
    /\ pc' = "asm_loop"
    /\ UNCHANGED <<fixed, fatal, training_data, trainVars, clf, predVars>>

\* lines 73-88: one iteration of the loop
AsmProcessFile ==
    /\ pc = "asm_loop"
    /\ \E f \in todo :
          /\ all_data' = IF Passes(input[f])
                         THEN Append(all_data, Transform(input[f]))
                         ELSE all_data
          /\ todo' = todo \ {f}
    /\ UNCHANGED <<fixed, disk, pc, fatal, listed, selected_files, training_data,
                   trainVars, clf, predVars>>

\* combined_df of line 91
Combined == Flatten(all_data)

\* lines 91 and 95: pd.concat of an empty list raises ValueError
AsmEmpty ==
    /\ pc = "asm_loop" /\ todo = {}
    /\ all_data = <<>> \/ GroupKeys(Combined) = {}
    /\ Raise("concat")
    /\ UNCHANGED <<fixed, disk, asmVars, trainVars, clf, predVars>>

\* line 97: to_parquet into a directory that does not exist raises
AsmPersistFail ==
    /\ pc = "asm_loop" /\ todo = {}
    /\ all_data # <<>> /\ GroupKeys(Combined) # {}
    /\ ~DataDirExists
    /\ Raise("to_parquet training_data")
    /\ UNCHANGED <<fixed, disk, asmVars, trainVars, clf, predVars>>

\* lines 91-98: concatenate, shuffle within each date, persist, return
AsmFinish ==
    /\ pc = "asm_loop" /\ todo = {}
    /\ all_data # <<>> /\ GroupKeys(Combined) # {}
    /\ DataDirExists
    /\ \E final_df \in ShuffledTables(Combined) :
          /\ disk' = [disk EXCEPT !.training = final_df]
          /\ training_data' = final_df
    /\ all_data' = <<>>
    /\ pc' = "train"
    /\ UNCHANGED <<fixed, fatal, listed, selected_files, todo, trainVars, clf, predVars>>

(* -------------------------- train_random_forest ------------------------ *)

\* lines 109-176: remove the old model, binarize, split, fit, predict on the
\* held-out rows and filter; the metrics of lines 166-176 are only logged
TrainFit ==
    /\ pc = "train"
    /\ disk' = [disk EXCEPT !.model = Absent]
    /\ LET X == [i \in DOMAIN training_data |-> Features(training_data[i])]
           y == [i \in DOMAIN training_data |-> Binarize(training_data[i].target)]
       IN  /\ X_train' = Head90(X)
           /\ X_test' = Tail10(X)
           /\ y_train' = Head90(y)
           /\ y_test' = Tail10(y)
    /\ \E c \in Classifiers : clf' = c
    /\ y_pred' = Predictions(PredictProba(clf', X_test'), args.pos, args.neg)
    /\ y_test_filtered' = Masked(y_test', Mask(y_pred'))
    /\ y_pred_filtered' = Masked(y_pred', Mask(y_pred'))
    /\ pc' = "train_dump"
    /\ UNCHANGED <<fixed, fatal, asmVars, predVars>>

\* lines 179-180; the consolidated table lies under model_output_directory, so
\* the directory exists whenever this line is reached
TrainDump ==
    /\ pc = "train_dump"
    /\ disk' = [disk EXCEPT !.model = clf]
    /\ pc' = "train_importance"
    /\ UNCHANGED <<fixed, fatal, asmVars, trainVars, clf, predVars>>

\* line 193 with the directory missing
TrainImportanceFail ==
    /\ pc = "train_importance"
    /\ ~ImportanceDirExists
    /\ Raise("to_parquet feature_importance")
    /\ UNCHANGED <<fixed, disk, asmVars, trainVars, clf, predVars>>

\* lines 185-195
TrainImportance ==
    /\ pc = "train_importance"
    /\ ImportanceDirExists
    /\ disk' = [disk EXCEPT !.importance = [of |-> clf]]
    /\ pc' = "done"
    /\ UNCHANGED <<fixed, fatal, asmVars, trainVars, clf, predVars>>

(* ---------------------------- predict_and_save -------------------------- *)

\* line 201 with the output directory missing
PredictListFail ==
    /\ pc = "start" /\ args.predict
    /\ ~PredictionDirExists
    /\ Raise("listdir output")
    /\ UNCHANGED <<fixed, disk, asmVars, trainVars, clf, predVars>>

\* a start that removes nothing
PredictBeginKeep ==
    /\ pc = "start" /\ args.predict
    /\ PredictionDirExists
    /\ to_remove' = {}
    /\ pc' = "pred_clear"
    /\ UNCHANGED <<fixed, disk, fatal, asmVars, trainVars, clf, pending>>

\* line 201: the listing the removal loop walks
PredictBegin ==
    /\ pc = "start" /\ args.predict
    /\ PredictionDirExists
    /\ to_remove' = {f \in DOMAIN disk.predictions : EndsWithParquet(f)}
    /\ pc' = "pred_clear"
    /\ UNCHANGED <<fixed, disk, fatal, asmVars, trainVars, clf, pending>>

\* lines 202-203: one iteration of the removal loop
PredictRemove ==
    /\ pc = "pred_clear"
    /\ \E f \in to_remove :
          /\ disk' = [disk EXCEPT !.predictions =
                        [g \in DOMAIN disk.predictions \ {f} |-> disk.predictions[g]]]
          /\ to_remove' = to_remove \ {f}
    /\ UNCHANGED <<fixed, pc, fatal, asmVars, trainVars, clf, pending>>

\* line 206 with no model file
PredictLoadFail ==
    /\ pc = "pred_clear" /\ to_remove = {}
    /\ disk.model = Absent
    /\ Raise("load")
    /\ UNCHANGED <<fixed, disk, asmVars, trainVars, clf, predVars>>

\* lines 206-209 with the input directory missing
PredictEnumFail ==
    /\ pc = "pred_clear" /\ to_remove = {}
    /\ disk.model # Absent
    /\ ~InputDirExists
    /\ clf' = disk.model
    /\ Raise("listdir")
    /\ UNCHANGED <<fixed, disk, asmVars, trainVars, predVars>>

\* lines 206-212
PredictLoad ==
    /\ pc = "pred_clear" /\ to_remove = {}
    /\ disk.model # Absent
    /\ InputDirExists
    /\ clf' = disk.model
    /\ pending' = AllFiles
    /\ pc' = "pred_loop"
    /\ UNCHANGED <<fixed, disk, fatal, asmVars, trainVars, to_remove>>

\* lines 217 and 221: a missing date or target column raises KeyError
PredictFileFail ==
    /\ pc = "pred_loop"
    /\ \E f \in pending : ~({DateCol, TargetCol} \subseteq input[f].cols)
    /\ Raise("column")
    /\ UNCHANGED <<fixed, disk, asmVars, trainVars, clf, predVars>>

\* lines 215-234: one iteration of the scoring loop
PredictFile ==
    /\ pc = "pred_loop"
    /\ \E f \in pending :
          /\ {DateCol, TargetCol} \subseteq input[f].cols
          /\ disk' = [disk EXCEPT !.predictions =
                        (f :> Scored(clf, ToDatetime(input[f].rows))) @@ disk.predictions]
          /\ pending' = pending \ {f}
    /\ UNCHANGED <<fixed, pc, fatal, asmVars, trainVars, clf, to_remove>>

\* lines 236-237
PredictDone ==
    /\ pc = "pred_loop" /\ pending = {}
    /\ pc' = "done"
    /\ UNCHANGED <<fixed, disk, fatal, asmVars, trainVars, clf, predVars>>

Next ==
    \/ AsmReuse \/ AsmListFail \/ AsmSampleFail \/ AsmSelect \/ AsmProcessFile
    \/ AsmEmpty \/ AsmPersistFail \/ AsmFinish
    \/ TrainFit \/ TrainDump \/ TrainImportanceFail \/ TrainImportance
    \/ PredictListFail \/ PredictBegin \/ PredictRemove \/ PredictLoadFail
    \/ PredictEnumFail \/ PredictLoad \/ PredictFileFail \/ PredictFile \/ PredictDone

Spec == Init /\ [][Next]_vars

(* ------------------------------ properties ------------------------------ *)

\* main() took the Assembler's non-reuse path
FreshRun == ~args.predict /\ ~(args.reuse /\ disk0.training # Absent)

\* prepare_training_data has returned
Returned == ~args.predict /\ training_data # <<>>

\* train_random_forest has split, fitted and evaluated
Evaluated == ~args.predict /\ clf # Absent

\* the source table of a row of the consolidated table
SourceOf(r) == input[Name(r.src)]

\* the rows of the consolidated table that come from file f
RowsFrom(f) == {i \in DOMAIN training_data : training_data[i].src = f.stem}

\* the positions (from 1) of a source table left once its first two and last
\* two rows are removed, and the shifted target of such a position
Candidates(t) == (TrimRows + 1)..(Len(t.rows) - TrimRows)
ShiftedTarget(t, k) == t.rows[k + 1].target
DroppedNull(t) == {k \in Candidates(t) : ShiftedTarget(t, k).null}
DroppedOutOfRange(t) ==
    {k \in Candidates(t) :
        /\ ~ShiftedTarget(t, k).null
        /\ \/ ShiftedTarget(t, k).val > TargetBound
           \/ ShiftedTarget(t, k).val < -TargetBound}

\* the per-file test as the specification words it
Skipped(t) == Len(t.rows) <= MinRows \/ TargetCol \notin t.cols \/ DateCol \notin t.cols

\* C1: on the non-reuse path every row of the consolidated table, returned and
\* persisted, carries as its target the target its source table held at the
\* row right after the row's source position.
C1_LeakageSafeLabels ==
    (FreshRun /\ Returned) =>
        /\ disk.training = training_data
        /\ \A i \in DOMAIN training_data :
              LET r == training_data[i]
              IN  r.target = SourceOf(r).rows[(r.idx + 1) + 1].target

\* C1 witness: a consolidated table built from a table whose next-row target is
\* exactly the bound, so that row carries it
C1_Witness ==
    /\ FreshRun /\ Returned
    /\ \E i \in DOMAIN training_data :
          /\ training_data[i].target = Num(TargetBound)
          /\ SourceOf(training_data[i]).rows[training_data[i].idx + 1].target # Num(TargetBound)

\* C2: every selected table with at least 51 rows and both columns contributes
\* exactly n - 4 - (null shifted targets) - (shifted targets outside
\* [-10000, 10000]) rows, the drops counted among the rows left by the trim.
C2_RowsPerTable ==
    (FreshRun /\ Returned) =>
        \A f \in selected_files :
            LET t == input[f]
            IN  (Len(t.rows) >= MinRows + 1 /\ {TargetCol, DateCol} \subseteq t.cols) =>
                    Cardinality(RowsFrom(f)) =
                        Len(t.rows) - 2 * TrimRows
                        - Cardinality(DroppedNull(t)) - Cardinality(DroppedOutOfRange(t))

\* the count of C2 for the tables none of whose candidate rows has a null date
RowsPerDatedTable ==
    (FreshRun /\ Returned) =>
        \A f \in selected_files :
            LET t == input[f]
            IN  (/\ Len(t.rows) >= MinRows + 1 /\ {TargetCol, DateCol} \subseteq t.cols
                 /\ \A k \in Candidates(t) : ~t.rows[k].date.null) =>
                    Cardinality(RowsFrom(f)) =
                        Len(t.rows) - 2 * TrimRows
                        - Cardinality(DroppedNull(t)) - Cardinality(DroppedOutOfRange(t))

\* C3: in the consolidated table the rows of one date form one contiguous block
\* and the blocks ascend by date; for a sequence that is to say that no row is
\* followed by a row of an earlier date.
C3_DateBlocks ==
    (FreshRun /\ Returned) =>
        \A i \in 1..(Len(training_data) - 1) :
            training_data[i].date <= training_data[i + 1].date

\* C3 witness: a date shared by two instruments whose rows the shuffle has put
\* in the order opposite to the one the files were read in
C3_Witness ==
    /\ FreshRun /\ Returned
    /\ \E i \in 1..(Len(training_data) - 1) :
          /\ training_data[i].date = training_data[i + 1].date
          /\ training_data[i].src > training_data[i + 1].src
    /\ \E i \in 1..(Len(training_data) - 1) :
          /\ training_data[i].date = training_data[i + 1].date
          /\ training_data[i].src < training_data[i + 1].src

\* C4: the training set is the first floor(0.9 n) rows in their order, the
\* validation set the remaining final rows, nothing shuffled, shared or left
\* out; 168 rows give 151 and 17.
C4_ChronologicalSplit ==
    Evaluated =>
        LET n == Len(training_data)
            m == Len(X_train)
        IN  /\ 10 * m <= 9 * n /\ 9 * n < 10 * (m + 1)
            /\ m + Len(X_test) = n
            /\ Len(y_train) = m /\ Len(y_test) = Len(X_test)
            /\ \A i \in 1..m :
                  /\ X_train[i] = Features(training_data[i])
                  /\ y_train[i] = Binarize(training_data[i].target)
            /\ \A i \in 1..(n - m) :
                  /\ X_test[i] = Features(training_data[m + i])
                  /\ y_test[i] = Binarize(training_data[m + i].target)
            /\ (n = 168 => m = 151 /\ Len(X_test) = 17)

\* C4 witness: three tables of 60 rows consolidated and split
C4_Witness ==
    /\ Evaluated
    /\ Len(training_data) = 168
    /\ Len(X_test) = 17

\* the validation rows the evaluation keeps, by position
KeptPositions == SelectSeq([i \in DOMAIN y_pred |-> i], LAMBDA i : y_pred[i] # -1)

\* C5: each validation row is predicted 1 when P(class 1) reaches the positive
\* threshold, else 0 when P(class 0) reaches the negative one, else -1; the
\* metrics see exactly the rows not predicted -1, each with its own label.
C5_DualThreshold ==
    Evaluated =>
        /\ DOMAIN y_pred = DOMAIN X_test
        /\ \A i \in DOMAIN X_test :
              LET p1 == clf[X_test[i].feat + 1]
                  p0 == 100 - p1
              IN  /\ p1 >= args.pos => y_pred[i] = 1
                  /\ (p1 < args.pos /\ p0 >= args.neg) => y_pred[i] = 0
                  /\ (p1 < args.pos /\ p0 < args.neg) => y_pred[i] = -1
        /\ Len(y_pred_filtered) = Len(KeptPositions)
        /\ Len(y_test_filtered) = Len(KeptPositions)
        /\ \A k \in DOMAIN KeptPositions :
              /\ y_pred_filtered[k] = y_pred[KeptPositions[k]]
              /\ y_test_filtered[k] = y_test[KeptPositions[k]]

\* C5 witness: a validation set with a row kept as 1 and a row abstained on
C5_Witness ==
    /\ Evaluated
    /\ \E i, j \in DOMAIN y_pred : y_pred[i] = 1 /\ y_pred[j] = -1
    /\ y_pred_filtered # <<>>
    /\ Len(y_pred_filtered) < Len(y_pred)

\* the prediction tables this run of the Scorer has written
Written ==
    IF args.predict /\ pc \in {"pred_loop", "done", "fatal"} /\ clf # Absent /\ InputDirExists
    THEN {f \in AllFiles \cap DOMAIN disk.predictions : f \notin pending}
    ELSE {}

\* C6: in every table the Scorer writes, UpProbability is the model's
\* P(class 1) of the row and lies in [0,1], UpPrediction is 1 exactly when it is
\* at least 0.62 and 0 otherwise, never -1.
C6_ScorerCutoff ==
    \A f \in Written :
        LET out == disk.predictions[f]
        IN  /\ Len(out) = Len(input[f].rows)
            /\ \A i \in DOMAIN out :
                  /\ out[i].UpProbability = clf[input[f].rows[i].feat + 1]
                  /\ out[i].UpProbability \in 0..100
                  /\ out[i].UpPrediction \in {0, 1}
                  /\ out[i].UpPrediction = 1 <=> out[i].UpProbability >= ScorerThreshold

\* C6 witness: a written row whose probability is exactly the cutoff
C6_Witness ==
    \E f \in Written :
        \E i \in DOMAIN disk.predictions[f] :
            /\ disk.predictions[f][i].UpProbability = ScorerThreshold
            /\ disk.predictions[f][i].UpPrediction = 1

\* the prediction tables of the output directory
Tables(dir) == {f \in DOMAIN dir : EndsWithParquet(f)}

\* the tables of the start that are still in the output directory
Surviving ==
    {f \in Tables(disk0.predictions) \cap Tables(disk.predictions) :
        disk.predictions[f] = disk0.predictions[f]}

\* C7: once the Scorer has written a table no table of the start is left, and
\* when it completes the tables of the output directory are the scored input
\* tables, one per input file under its name.
C7_StaleTablesCleared ==
    args.predict =>
        /\ Written # {} => Surviving = {}
        /\ pc = "done" =>
              /\ Tables(disk.predictions) = AllFiles
              /\ \A f \in AllFiles :
                    disk.predictions[f] = Scored(clf, ToDatetime(input[f].rows))

\* C7 witness: a completed run that started with a table of an instrument no
\* longer present and one of an instrument still present
C7_Witness ==
    /\ args.predict /\ pc = "done"
    /\ Name(1) \in DOMAIN disk0.predictions
    /\ Name(NumFiles + 1) \in DOMAIN disk0.predictions

\* C8: with reuse set and a consolidated table on disk the Assembler returns
\* that table, lists and samples nothing and leaves the file as it was;
\* otherwise it returns a table it has built and persisted.
C8_ReusePath ==
    Returned =>
        IF args.reuse /\ disk0.training # Absent
        THEN /\ training_data = disk0.training
             /\ disk.training = disk0.training
             /\ ~listed
             /\ selected_files = {}
        ELSE /\ listed
             /\ disk.training = training_data
             /\ \A i \in DOMAIN training_data :
                   Name(training_data[i].src) \in selected_files

\* C8 witness: the reuse path taken
C8_Witness ==
    /\ Returned
    /\ args.reuse /\ disk0.training # Absent
    /\ pc = "train"

\* the configuration is sound: every directory exists, the percentage is one
SoundConfig == missing = "none" /\ args.runpercent \in 0..100

Reaching(t) ==
    {k \in Candidates(t) \ (DroppedNull(t) \cup DroppedOutOfRange(t)) : ~t.rows[k].date.null}

ConfigError ==
    \/ args.predict /\ missing \in {"input", "model", "prediction"}
    \/ ~args.predict /\ missing \in {"input", "data", "model", "importance"}
    \/ ~args.predict /\ args.runpercent \notin 0..100

\* C10: with a configuration error the run ends in a fatal error with the
\* artifacts on disk as they were when it started.
C10_FailFast ==
    (ConfigError /\ pc \in {"fatal", "done"}) => (pc = "fatal" /\ disk = disk0)

====
